---- MODULE Spec2Model ----
(***************************************************************************)
(* Model of process_mining.py: Excel sheets are loaded into SQLite, one    *)
(* SQL query unpivots the timestamp columns into events and left-joins the *)
(* source tables back on, pm4py discovers the directly-follows graph, a    *)
(* process map is rendered (Graphviz, or the matplotlib fallback) and      *)
(* summary analytics are printed.                                          *)
(*                                                                         *)
(* Values.  Spreadsheet timestamps are datetimes, modelled as the numbers  *)
(* 1..MaxTime with 0 for an empty cell (NaT).  In SQLite and in the        *)
(* DataFrame read back from it a timestamp is TEXT in ISO format: a        *)
(* fixed-width string whose fields run from the most significant to the    *)
(* least, modelled as the two-field sequence <<day, hour>>; the SQL NULL   *)
(* of a text column is the empty sequence; a datetime64 cell of such a     *)
(* DataFrame is the one-field sequence <<t>> (<<0>> for NaT), so a text    *)
(* cell and a datetime cell are never equal.  The descriptive columns of a *)
(* source row (OrderDetails, OrderTotal, Warehouse, ShipmentID, ...) are   *)
(* represented by one column per table whose value is the row's position   *)
(* in its sheet, 0 standing for NULL.                                      *)
(***************************************************************************)
EXTENDS Integers, Sequences, FiniteSets, TLC

VARIABLES
    excel_exists,      \* os.path.exists("sample_data.xlsx")
    sheets,            \* the workbook: table name -> [cols, rows]
    db,                \* output/process_data.db: table name -> [cols, rows]
    unpivoted_events,  \* the rows of the unpivoted_events CTE
    event_log,         \* the DataFrame event_log
    provenance,        \* history: per event_log row, its (scan, row) origin
    csv,               \* output/event_log.csv
    pm4py_log,         \* the DataFrame handed to pm4py
    dfg,               \* pm4py.discover_dfg results
    start_activities,
    end_activities,
    files,             \* image files written under output/
    fallback,          \* what create_fallback_visualization drew
    analytics,         \* the STEP 4 metrics
    pc,                \* position in main()
    error              \* the exception that ended the run, if any

vars == <<excel_exists, sheets, db, unpivoted_events, event_log,
          provenance, csv, pm4py_log, dfg, start_activities, end_activities,
          files, fallback, analytics, pc, error>>

----------------------------------------------------------------------------
(* Bounds of the model *)

MaxRows == 2       \* rows over the four sheets
MaxEvents == 3     \* non-empty timestamp cells over the sheets
MaxOrder == 2      \* order ids are 1..MaxOrder
MaxTime == 2       \* timestamps are 1..MaxTime
HoursPerDay == 2   \* width of the least significant field of a timestamp
MaxResult == 4     \* rows of the query result

----------------------------------------------------------------------------
(* Values *)

NULL == 0
NULLTEXT == <<>>

OrderIDs == 1..MaxOrder
Times == 1..MaxTime
Cells == {NULL} \cup Times

\* sqlite3's adapter for datetime: ISO text, most significant field first.
IsoFormat(t) ==
    IF t = NULL THEN NULLTEXT ELSE <<t \div HoursPerDay, t % HoursPerDay>>

\* The instant an ISO text denotes (NULL for the NULL text).
ParseIso(s) ==
    IF s = NULLTEXT THEN NULL ELSE s[1] * HoursPerDay + s[2]

\* pd.to_datetime on one ISO text cell: a datetime64 cell.
ToDatetime(s) == <<ParseIso(s)>>

\* SQLite's comparison of two non-NULL TEXT values (memcmp, then length).
RECURSIVE TextLess(_, _)
TextLess(a, b) ==
    IF a = <<>> THEN b # <<>>
    ELSE IF b = <<>> THEN FALSE
    ELSE IF a[1] # b[1] THEN a[1] < b[1]
    ELSE TextLess(Tail(a), Tail(b))

----------------------------------------------------------------------------
(* The workbook and the schema the query needs *)

TableNames == {"ordertable", "customertable", "shippingtable", "supporttable"}

\* The columns event_log_query reads, per table.
QueryColumns ==
    [ordertable |-> {"OrderID", "CustomerID", "OrderDate", "PickedDate",
                     "PackedDate", "Warehouse"},
     customertable |-> {"CustomerID", "ShippingAddress"},
     shippingtable |-> {"OrderID", "DeliveredDate", "PickUpDate",
                        "DeliveryCompany"},
     supporttable |-> {"OrderID", "TicketReceived", "TicketResolved",
                       "RefundIssued", "SupportTeam"}]

\* The timestamp columns of each sheet.
TimestampColumns ==
    [ordertable |-> {"OrderDate", "PickedDate", "PackedDate"},
     customertable |-> {},
     shippingtable |-> {"DeliveredDate", "PickUpDate"},
     supporttable |-> {"TicketReceived", "TicketResolved", "RefundIssued"}]

OrderRows ==
    [OrderID : OrderIDs, CustomerID : {1}, OrderDate : Cells,
     PickedDate : Cells, PackedDate : Cells]
ShippingRows ==
    [OrderID : OrderIDs, DeliveredDate : Cells, PickUpDate : Cells]
SupportRows ==
    [OrderID : OrderIDs, TicketReceived : Cells, TicketResolved : Cells,
     RefundIssued : Cells]

\* Number of non-empty timestamp cells of a sheet's rows.
RECURSIVE CountCells(_, _, _)
CountCells(rows, cols, i) ==
    IF i > Len(rows) THEN 0
    ELSE Cardinality({c \in cols : rows[i][c] # NULL})
         + CountCells(rows, cols, i + 1)

\* A sheet row without the column the sheet lacks.
Strip(r, t, dropped) ==
    IF dropped[1] = t
    THEN [col \in (DOMAIN r) \ {dropped[2]} |-> r[col]]
    ELSE r

\* The workbook whose sheets hold the rows o, s and u and c customers; the
\* pair dropped names one column a sheet lacks (NoDrop: none).  A row's
\* descriptive column holds the row's position in its sheet.
Workbook(o, c, s, u, dropped) ==
    [t \in TableNames |->
        [cols |-> QueryColumns[t]
                    \ (IF dropped[1] = t THEN {dropped[2]} ELSE {}),
         rows |-> CASE t = "ordertable" ->
                        [i \in 1..Len(o) |->
                            Strip(o[i] @@ [Warehouse |-> i], t, dropped)]
                    [] t = "customertable" ->
                        [i \in 1..c |->
                            Strip([CustomerID |-> 1, ShippingAddress |-> i],
                                  t, dropped)]
                    [] t = "shippingtable" ->
                        [i \in 1..Len(s) |->
                            Strip(s[i] @@ [DeliveryCompany |-> i], t, dropped)]
                    [] t = "supporttable" ->
                        [i \in 1..Len(u) |->
                            Strip(u[i] @@ [SupportTeam |-> i], t, dropped)]]]

NoDrop == <<"none", "none">>

\* The timestamp and key columns, any one of which a sheet may lack.
Droppable ==
    {tc \in TableNames \X {"OrderID", "CustomerID", "OrderDate", "PickedDate",
                           "PackedDate", "DeliveredDate", "PickUpDate",
                           "TicketReceived", "TicketResolved", "RefundIssued"} :
        tc[2] \in QueryColumns[tc[1]]}

EmptyTables == [t \in TableNames |-> [cols |-> {}, rows |-> <<>>]]

\* The workbooks of at most maxRows rows and maxEvents timestamps.
Workbooks(maxRows, maxEvents, drops) ==
    UNION {UNION {UNION {UNION {
        {Workbook(o, nc, s, u, d) :
            o \in {x \in [1..no -> OrderRows] :
                     CountCells(x, TimestampColumns.ordertable, 1) <= maxEvents},
            s \in {x \in [1..ns -> ShippingRows] :
                     CountCells(x, TimestampColumns.shippingtable, 1) <= maxEvents},
            u \in {x \in [1..nu -> SupportRows] :
                     CountCells(x, TimestampColumns.supporttable, 1) <= maxEvents},
            d \in drops}
        : nc \in 0..(maxRows - no - ns - nu)}
        : nu \in 0..(maxRows - no - ns)}
        : ns \in 0..(maxRows - no)}
        : no \in 0..maxRows}

\* Number of non-empty timestamp cells of a workbook.
EventCells(wb) ==
    CountCells(wb.ordertable.rows,
               TimestampColumns.ordertable \cap wb.ordertable.cols, 1)
    + CountCells(wb.shippingtable.rows,
                 TimestampColumns.shippingtable \cap wb.shippingtable.cols, 1)
    + CountCells(wb.supporttable.rows,
                 TimestampColumns.supporttable \cap wb.supporttable.cols, 1)

----------------------------------------------------------------------------
(* Artifacts not yet produced *)

NoFrame == [built |-> FALSE, ts_dtype |-> "none", rows |-> <<>>]
NoCounts == [built |-> FALSE, counts |-> <<>>]
NoFallback ==
    [drawn |-> FALSE, positions |-> <<>>, arrows |-> {}, cases |-> 0,
     events |-> 0, activity_types |-> 0, time_span |-> 0, span_nan |-> FALSE]
NoAnalytics ==
    [computed |-> FALSE, total_cases |-> 0, total_events |-> 0,
     avg_events_per_case |-> <<0, 1>>, activity_counts |-> <<>>,
     time_span |-> 0]

----------------------------------------------------------------------------
(* STEP 1: Excel -> SQLite *)

\* df.to_sql(table_name, conn, if_exists='replace', index=False): the table
\* takes the sheet's columns; datetimes are stored as ISO text.
ToSql(t, sheet) ==
    [cols |-> sheet.cols,
     rows |-> [i \in 1..Len(sheet.rows) |->
                 [col \in DOMAIN sheet.rows[i] |->
                    IF col \in TimestampColumns[t]
                    THEN IsoFormat(sheet.rows[i][col])
                    ELSE sheet.rows[i][col]]]]

\* The workbook is missing: main() prints an error and returns.
ExcelNotFound ==
    /\ pc = "start"
    /\ ~excel_exists
    /\ pc' = "done"
    /\ UNCHANGED <<excel_exists, sheets, db, unpivoted_events, event_log,
                   provenance, csv, pm4py_log, dfg, start_activities,
                   end_activities, files, fallback, analytics, error>>

LoadSheets ==
    /\ pc = "start"
    /\ excel_exists
    /\ db' = [t \in TableNames |-> ToSql(t, sheets[t])]
    /\ pc' = "loaded"
    /\ UNCHANGED <<excel_exists, sheets, unpivoted_events, event_log,
                   provenance, csv, pm4py_log, dfg, start_activities,
                   end_activities, files, fallback, analytics, error>>

----------------------------------------------------------------------------
(* STEP 2: the event_log_query *)

\* The branches of the unpivoted_events CTE, in UNION ALL order.
DeclaredColumns ==
    << [table |-> "ordertable", column |-> "OrderDate",
        label |-> "OrderDate", source_type |-> "order"],
       [table |-> "ordertable", column |-> "PickedDate",
        label |-> "PickedDate", source_type |-> "order"],
       [table |-> "ordertable", column |-> "PackedDate",
        label |-> "PackedDate", source_type |-> "order"],
       [table |-> "shippingtable", column |-> "DeliveredDate",
        label |-> "DeliveredDate", source_type |-> "shipping"],
       [table |-> "shippingtable", column |-> "PickUpDate",
        label |-> "PickUpDate", source_type |-> "shipping"],
       [table |-> "supporttable", column |-> "TicketReceived",
        label |-> "TicketReceived", source_type |-> "support"],
       [table |-> "supporttable", column |-> "TicketResolved",
        label |-> "TicketResolved", source_type |-> "support"],
       [table |-> "supporttable", column |-> "RefundIssued",
        label |-> "RefundIssued", source_type |-> "support"] >>

\* The columns the query names that a table of the database lacks: SQLite
\* rejects the statement ("no such column") when it is prepared.
MissingColumns(tables) ==
    {tc \in TableNames \X UNION {QueryColumns[t] : t \in TableNames} :
        tc[2] \in QueryColumns[tc[1]] /\ tc[2] \notin tables[tc[1]].cols}

\* Mutant of SelectEvents: the branch without its WHERE clause.
RECURSIVE SelectEventsUnfiltered(_, _, _)
SelectEventsUnfiltered(tables, k, i) ==
    LET d == DeclaredColumns[k]
        rows == tables[d.table].rows
    IN  IF i > Len(rows) THEN <<>>
        ELSE << [OrderID |-> rows[i].OrderID,
                 Activities |-> d.label,
                 Timestamp |-> rows[i][d.column],
                 source_type |-> d.source_type,
                 scan |-> k, row |-> i] >>
             \o SelectEventsUnfiltered(tables, k, i + 1)

\* One branch: SELECT OrderID, '<label>', <column>, '<source_type>'
\* FROM <table> WHERE <column> IS NOT NULL, rows i.. of the table in table
\* order.  scan and row record where the event came from; they are history,
\* not columns of the CTE.
RECURSIVE SelectEvents(_, _, _)
SelectEvents(tables, k, i) ==
    LET d == DeclaredColumns[k]
        rows == tables[d.table].rows
    IN  IF i > Len(rows) THEN <<>>
        ELSE (IF rows[i][d.column] # NULLTEXT
              THEN << [OrderID |-> rows[i].OrderID,
                       Activities |-> d.label,
                       Timestamp |-> rows[i][d.column],
                       source_type |-> d.source_type,
                       scan |-> k, row |-> i] >>
              ELSE <<>>)
             \o SelectEvents(tables, k, i + 1)

\* UNION ALL of the branches k.. of the CTE.
RECURSIVE UnpivotedEvents(_, _)
UnpivotedEvents(tables, k) ==
    IF k > Len(DeclaredColumns) THEN <<>>
    ELSE SelectEvents(tables, k, 1) \o UnpivotedEvents(tables, k + 1)

\* The positions i.. of the rows whose column col equals v, ascending.
RECURSIVE MatchingRows(_, _, _, _)
MatchingRows(rows, col, v, i) ==
    IF i > Len(rows) THEN <<>>
    ELSE (IF v # NULL /\ rows[i][col] = v THEN <<i>> ELSE <<>>)
         \o MatchingRows(rows, col, v, i + 1)

\* LEFT JOIN: the matching rows, or one all-NULL row when there is none.
LeftJoin(rows, col, v) ==
    LET m == MatchingRows(rows, col, v, 1)
    IN  IF m = <<>> THEN <<NULL>> ELSE m

RECURSIVE Flatten(_)
Flatten(ss) ==
    IF ss = <<>> THEN <<>> ELSE Head(ss) \o Flatten(Tail(ss))

\* A descriptive column of the joined row at position i (NULL: no match).
Attribute(rows, i, col) == IF i = NULL THEN NULL ELSE rows[i][col]

\* The rows the four LEFT JOINs give for one unpivoted event, in nested-loop
\* order: every order row of the case, its customers, every shipping row of
\* the case, every support row of the case.
JoinedRows(tables, ue) ==
    LET om == LeftJoin(tables.ordertable.rows, "OrderID", ue.OrderID)
        sm == LeftJoin(tables.shippingtable.rows, "OrderID", ue.OrderID)
        um == LeftJoin(tables.supporttable.rows, "OrderID", ue.OrderID)
        cm(o) == LeftJoin(tables.customertable.rows, "CustomerID",
                          Attribute(tables.ordertable.rows, o, "CustomerID"))
    IN  Flatten([a \in 1..Len(om) |->
          Flatten([b \in 1..Len(cm(om[a])) |->
            Flatten([c \in 1..Len(sm) |->
              [e \in 1..Len(um) |->
                [OrderID |-> ue.OrderID,
                 Activities |-> ue.Activities,
                 Timestamp |-> ue.Timestamp,
                 ShippingAddress |->
                    Attribute(tables.customertable.rows, cm(om[a])[b],
                              "ShippingAddress"),
                 Warehouse |->
                    Attribute(tables.ordertable.rows, om[a], "Warehouse"),
                 DeliveryCompany |->
                    Attribute(tables.shippingtable.rows, sm[c],
                              "DeliveryCompany"),
                 SupportTeam |->
                    Attribute(tables.supporttable.rows, um[e], "SupportTeam"),
                 scan |-> ue.scan, row |-> ue.row]]])])])

\* FROM unpivoted_events ue LEFT JOIN ... : the joined rows of every event.
Enriched(tables, ues) ==
    Flatten([i \in 1..Len(ues) |-> JoinedRows(tables, ues[i])])

\* Mutant of OrderByLess: ORDER BY ue.OrderID alone.
OrderByCaseOnly(a, b) == a.OrderID < b.OrderID

\* ORDER BY ue.OrderID, ue.Timestamp: whether row a sorts before row b.
OrderByLess(a, b) ==
    \/ a.OrderID < b.OrderID
    \/ a.OrderID = b.OrderID /\ TextLess(a.Timestamp, b.Timestamp)

SameOrderByKey(a, b) == ~OrderByLess(a, b) /\ ~OrderByLess(b, a)

\* x put into the sorted sequence s after the rows that do not sort after it.
RECURSIVE InsertSorted(_, _)
InsertSorted(s, x) ==
    IF s = <<>> THEN <<x>>
    ELSE IF OrderByLess(x, Head(s)) THEN <<x>> \o s
    ELSE <<Head(s)>> \o InsertSorted(Tail(s), x)

RECURSIVE SortRows(_)
SortRows(s) ==
    IF s = <<>> THEN <<>>
    ELSE InsertSorted(SortRows(SubSeq(s, 1, Len(s) - 1)), s[Len(s)])

\* Every arrangement of the rows of s.
RECURSIVE Arrangements(_)
Arrangements(s) ==
    IF s = <<>> THEN {<<>>}
    ELSE UNION {{<<s[i]>> \o p :
                    p \in Arrangements(SubSeq(s, 1, i - 1)
                                       \o SubSeq(s, i + 1, Len(s)))}
                : i \in 1..Len(s)}

\* Length of the run of rows at the head of s with the key of s[1].
RECURSIVE TieRun(_, _)
TieRun(s, n) ==
    IF n < Len(s) /\ SameOrderByKey(s[1], s[n + 1]) THEN TieRun(s, n + 1)
    ELSE n

\* The results ORDER BY may return for the sorted rows s: SQL leaves the
\* order of rows with equal keys unspecified, so every arrangement of each
\* run of ties is a possible result.
RECURSIVE TieOrders(_)
TieOrders(s) ==
    IF s = <<>> THEN {<<>>}
    ELSE LET n == TieRun(s, 1)
         IN  {p \o q : p \in Arrangements(SubSeq(s, 1, n)),
                       q \in TieOrders(SubSeq(s, n + 1, Len(s)))}

\* The rows the query may return.
QueryResults(tables) ==
    TieOrders(SortRows(Enriched(tables, UnpivotedEvents(tables, 1))))

\* The DataFrame columns of a result row.
FrameRow(r) ==
    [OrderID |-> r.OrderID, Activities |-> r.Activities,
     Timestamp |-> r.Timestamp, ShippingAddress |-> r.ShippingAddress,
     Warehouse |-> r.Warehouse, DeliveryCompany |-> r.DeliveryCompany,
     SupportTeam |-> r.SupportTeam]

\* pd.read_sql_query(event_log_query, conn): TEXT comes back as str.
ReadSqlQuery(result) ==
    [built |-> TRUE, ts_dtype |-> "object",
     rows |-> [i \in 1..Len(result) |-> FrameRow(result[i])]]

\* The query cannot be prepared: read_sql_query raises and main() ends
\* before event_log is bound or written.
QueryFails ==
    /\ pc = "loaded"
    /\ MissingColumns(db) # {}
    /\ pc' = "crashed"
    /\ error' = "DatabaseError"
    /\ UNCHANGED <<excel_exists, sheets, db, unpivoted_events, event_log,
                   provenance, csv, pm4py_log, dfg, start_activities,
                   end_activities, files, fallback, analytics>>

\* Mutant of Transform: the database error is swallowed and an empty event
\* log is read and saved.
TransformSwallowsError ==
    /\ pc = "loaded"
    /\ \E result \in (IF MissingColumns(db) = {} THEN QueryResults(db)
                      ELSE {<<>>}) :
          /\ unpivoted_events' = (IF MissingColumns(db) = {}
                                  THEN UnpivotedEvents(db, 1) ELSE <<>>)
          /\ event_log' = ReadSqlQuery(result)
          /\ provenance' = [i \in 1..Len(result) |->
                               <<result[i].scan, result[i].row>>]
          /\ csv' = ReadSqlQuery(result)
    /\ pc' = "etl"
    /\ UNCHANGED <<excel_exists, sheets, db, pm4py_log, dfg, start_activities,
                   end_activities, files, fallback, analytics, error>>

\* The query runs; event_log is read and saved as event_log.csv.
Transform ==
    /\ pc = "loaded"
    /\ MissingColumns(db) = {}
    /\ \E result \in QueryResults(db) :
          /\ unpivoted_events' = UnpivotedEvents(db, 1)
          /\ event_log' = ReadSqlQuery(result)
          /\ provenance' = [i \in 1..Len(result) |->
                               <<result[i].scan, result[i].row>>]
          /\ csv' = ReadSqlQuery(result)
    /\ pc' = "etl"
    /\ UNCHANGED <<excel_exists, sheets, db, pm4py_log, dfg, start_activities,
                   end_activities, files, fallback, analytics, error>>

----------------------------------------------------------------------------
(* STEP 3: process discovery and visualisation *)

\* One row of pm4py_log: the renamed columns, the parsed timestamp and the
\* resource (the first of Warehouse, DeliveryCompany, SupportTeam that is
\* not null, named with its column, else 'Unknown').
Pm4pyRow(r) ==
    [c \in {"case:concept:name", "concept:name", "time:timestamp",
            "org:resource"} |->
        CASE c = "case:concept:name" -> r.OrderID
          [] c = "concept:name" -> r.Activities
          [] c = "time:timestamp" -> ToDatetime(r.Timestamp)
          [] c = "org:resource" ->
                IF r.Warehouse # NULL THEN <<"Warehouse", r.Warehouse>>
                ELSE IF r.DeliveryCompany # NULL
                     THEN <<"DeliveryCompany", r.DeliveryCompany>>
                ELSE IF r.SupportTeam # NULL
                     THEN <<"SupportTeam", r.SupportTeam>>
                ELSE <<"Unknown", NULL>>]

\* event_log.rename(...).copy(), pd.to_datetime and the org:resource column.
Pm4pyLog(frame) ==
    [built |-> TRUE, ts_dtype |-> "datetime64",
     rows |-> [i \in 1..Len(frame.rows) |-> Pm4pyRow(frame.rows[i])]]

\* The case ids of the rows i.., each once, in order of first appearance.
RECURSIVE CaseOrder(_, _, _)
CaseOrder(rows, i, seen) ==
    IF i > Len(rows) THEN <<>>
    ELSE LET case == rows[i]["case:concept:name"]
         IN  IF case \in seen THEN CaseOrder(rows, i + 1, seen)
             ELSE <<case>> \o CaseOrder(rows, i + 1, seen \cup {case})

\* The activities of the rows i.. of one case, in row order.
RECURSIVE Trace(_, _, _)
Trace(rows, case, i) ==
    IF i > Len(rows) THEN <<>>
    ELSE (IF rows[i]["case:concept:name"] = case
          THEN <<rows[i]["concept:name"]>> ELSE <<>>)
         \o Trace(rows, case, i + 1)

\* pm4py.convert_to_event_log: one trace per case, events in row order.
ConvertToEventLog(frame) ==
    LET cases == CaseOrder(frame.rows, 1, {})
    IN  [i \in 1..Len(cases) |-> Trace(frame.rows, cases[i], 1)]

\* Mutant of Increment: a key is entered once and never counted again.
IncrementOnce(counts, k) ==
    IF k \in DOMAIN counts THEN counts ELSE counts @@ (k :> 1)

\* counts[k] += 1 on a dictionary of counts.
Increment(counts, k) ==
    IF k \in DOMAIN counts THEN [counts EXCEPT ![k] = @ + 1]
    ELSE counts @@ (k :> 1)

\* Mutant of CountFollows: a pair of equal activities is not counted.
RECURSIVE CountFollowsNoSelfLoops(_, _, _)
CountFollowsNoSelfLoops(counts, trace, i) ==
    IF i >= Len(trace) THEN counts
    ELSE CountFollowsNoSelfLoops(
            IF trace[i] = trace[i + 1] THEN counts
            ELSE Increment(counts, <<trace[i], trace[i + 1]>>),
            trace, i + 1)

\* The directly-follows pairs i.. of one trace added to counts.
RECURSIVE CountFollows(_, _, _)
CountFollows(counts, trace, i) ==
    IF i >= Len(trace) THEN counts
    ELSE CountFollows(Increment(counts, <<trace[i], trace[i + 1]>>),
                      trace, i + 1)

\* Mutant of DiscoverDfg: a trace of one event is passed over.
RECURSIVE DiscoverDfgSkipsSingletons(_, _, _)
DiscoverDfgSkipsSingletons(log, i, acc) ==
    IF i > Len(log) THEN acc
    ELSE LET trace == log[i]
         IN  DiscoverDfgSkipsSingletons(log, i + 1,
                IF Len(trace) <= 1 THEN acc
                ELSE [dfg |-> CountFollows(acc.dfg, trace, 1),
                      start_activities |->
                          Increment(acc.start_activities, trace[1]),
                      end_activities |->
                          Increment(acc.end_activities, trace[Len(trace)])])

\* pm4py.discover_dfg over the traces i..: the frequency of every
\* directly-follows pair and of every first and last activity.
RECURSIVE DiscoverDfg(_, _, _)
DiscoverDfg(log, i, acc) ==
    IF i > Len(log) THEN acc
    ELSE LET trace == log[i]
         IN  DiscoverDfg(log, i + 1,
                IF trace = <<>> THEN acc
                ELSE [dfg |-> CountFollows(acc.dfg, trace, 1),
                      start_activities |->
                          Increment(acc.start_activities, trace[1]),
                      end_activities |->
                          Increment(acc.end_activities, trace[Len(trace)])])

Discover ==
    /\ pc = "etl"
    /\ pm4py_log' = Pm4pyLog(event_log)
    /\ LET found == DiscoverDfg(ConvertToEventLog(Pm4pyLog(event_log)), 1,
                                [dfg |-> <<>>, start_activities |-> <<>>,
                                 end_activities |-> <<>>])
       IN  /\ dfg' = [built |-> TRUE, counts |-> found.dfg]
           /\ start_activities' =
                 [built |-> TRUE, counts |-> found.start_activities]
           /\ end_activities' =
                 [built |-> TRUE, counts |-> found.end_activities]
    /\ pc' = "discovered"
    /\ UNCHANGED <<excel_exists, sheets, db, unpivoted_events, event_log,
                   provenance, csv, files, fallback, analytics, error>>

\* pm4py.save_vis_dfg renders the map with Graphviz.
SaveVisDfg ==
    /\ pc = "discovered"
    /\ files' = files \cup {"process_map.png"}
    /\ pc' = "visualized"
    /\ UNCHANGED <<excel_exists, sheets, db, unpivoted_events, event_log,
                   provenance, csv, pm4py_log, dfg, start_activities,
                   end_activities, fallback, analytics, error>>

\* The activity labels in the order sorted() gives them.
SortedLabels ==
    <<"DeliveredDate", "OrderDate", "PackedDate", "PickUpDate", "PickedDate",
      "RefundIssued", "TicketReceived", "TicketResolved">>

\* sorted(event_log['Activities'].unique())
SortedActivities(frame) ==
    SelectSeq(SortedLabels,
              LAMBDA a : \E i \in 1..Len(frame.rows) :
                            frame.rows[i].Activities = a)

\* The instants of pd.to_datetime(frame['Timestamp']), which leaves a
\* datetime64 column as it is.
Timestamps(frame) ==
    {IF frame.ts_dtype = "object"
     THEN ToDatetime(frame.rows[i].Timestamp)[1]
     ELSE frame.rows[i].Timestamp[1] : i \in 1..Len(frame.rows)}

Maximum(S) == CHOOSE x \in S : \A y \in S : y <= x
Minimum(S) == CHOOSE x \in S : \A y \in S : x <= y

\* (max - min).days; max and min of an empty column are NaT and the days of
\* NaT - NaT are NaN.
SpanDays(S) ==
    IF S = {} THEN [nan |-> TRUE, days |-> 0]
    ELSE [nan |-> FALSE,
          days |-> (Maximum(S) - Minimum(S)) \div HoursPerDay]

\* event_log['Activities'].value_counts(): the rows of each activity.
ValueCounts(frame) ==
    [a \in {frame.rows[i].Activities : i \in 1..Len(frame.rows)} |->
        Cardinality({i \in 1..Len(frame.rows) : frame.rows[i].Activities = a})]

\* event_log['OrderID'].nunique()
NUnique(frame) ==
    Cardinality({frame.rows[i].OrderID : i \in 1..Len(frame.rows)})

\* create_fallback_visualization(dfg, event_log): one box per activity
\* (label, slot and number of events), one arrow per directly-follows pair
\* (line width in quarters of a point) and the summary text.
FallbackVisualization(edges, frame) ==
    LET activities == SortedActivities(frame)
        slot(a) == CHOOSE i \in 1..Len(activities) : activities[i] = a
        span == SpanDays(Timestamps(frame))
    IN  [drawn |-> TRUE,
         positions |-> [i \in 1..Len(activities) |->
                          <<activities[i], Len(activities) - (i - 1),
                            ValueCounts(frame)[activities[i]]>>],
         arrows |-> {[source |-> e[1], target |-> e[2],
                      frequency |-> edges[e],
                      lw |-> IF edges[e] > 4 THEN edges[e] ELSE 4,
                      y |-> <<Len(activities) - (slot(e[1]) - 1),
                              Len(activities) - (slot(e[2]) - 1)>>]
                     : e \in {x \in DOMAIN edges :
                                /\ \E i \in 1..Len(activities) :
                                      activities[i] = x[1]
                                /\ \E i \in 1..Len(activities) :
                                      activities[i] = x[2]}},
         cases |-> NUnique(frame),
         events |-> Len(frame.rows),
         activity_types |-> Len(activities),
         time_span |-> span.days,
         span_nan |-> span.nan]

\* save_vis_dfg raises (no Graphviz): the except branch draws the fallback.
Fallback ==
    /\ pc = "discovered"
    /\ fallback' = FallbackVisualization(dfg.counts, event_log)
    /\ files' = files \cup {"process_map_matplotlib.png"}
    /\ pc' = "visualized"
    /\ UNCHANGED <<excel_exists, sheets, db, unpivoted_events, event_log,
                   provenance, csv, pm4py_log, dfg, start_activities,
                   end_activities, analytics, error>>

----------------------------------------------------------------------------
(* STEP 4: process analytics *)

\* event_log['Timestamp'] = pd.to_datetime(event_log['Timestamp'])
ParseTimestamps(frame) ==
    [built |-> TRUE, ts_dtype |-> "datetime64",
     rows |-> [i \in 1..Len(frame.rows) |->
                 [frame.rows[i] EXCEPT
                    !.Timestamp = ToDatetime(frame.rows[i].Timestamp)]]]

\* total_events / total_cases raises ZeroDivisionError for a log of no
\* case, before anything else of STEP 4 is computed.
AnalyticsFails ==
    /\ pc = "visualized"
    /\ NUnique(event_log) = 0
    /\ pc' = "crashed"
    /\ error' = "ZeroDivisionError"
    /\ UNCHANGED <<excel_exists, sheets, db, unpivoted_events, event_log,
                   provenance, csv, pm4py_log, dfg, start_activities,
                   end_activities, files, fallback, analytics>>

\* The metrics (avg_events_per_case is the quotient <<total_events,
\* total_cases>>), with the Timestamp column of event_log replaced by its
\* datetimes on the way.
Analytics ==
    /\ pc = "visualized"
    /\ NUnique(event_log) # 0
    /\ event_log' = ParseTimestamps(event_log)
    /\ analytics' =
          [computed |-> TRUE,
           total_cases |-> NUnique(event_log),
           total_events |-> Len(event_log.rows),
           avg_events_per_case |->
              <<Len(event_log.rows), NUnique(event_log)>>,
           activity_counts |-> ValueCounts(event_log),
           time_span |-> SpanDays(Timestamps(ParseTimestamps(event_log))).days]
    /\ pc' = "done"
    /\ UNCHANGED <<excel_exists, sheets, db, unpivoted_events, provenance,
                   csv, pm4py_log, dfg, start_activities, end_activities,
                   files, fallback, error>>

----------------------------------------------------------------------------

\* Number of rows the query returns for a workbook.
ResultSize(wb) ==
    LET tables == [t \in TableNames |-> ToSql(t, wb[t])]
    IN  Len(Enriched(tables, UnpivotedEvents(tables, 1)))

\* The state when main() starts: a workbook is on disk, complete or lacking
\* one column, or there is none.
Init ==
    /\ \/ /\ excel_exists = TRUE
          /\ \/ /\ sheets \in Workbooks(MaxRows, MaxEvents, {NoDrop})
                /\ EventCells(sheets) <= MaxEvents
                /\ ResultSize(sheets) <= MaxResult
             \/ /\ sheets \in Workbooks(MaxRows - 1, MaxEvents - 1, Droppable)
                /\ EventCells(sheets) <= MaxEvents - 1
       \/ /\ excel_exists = FALSE
          /\ sheets = EmptyTables
    /\ db = EmptyTables
    /\ unpivoted_events = <<>>
    /\ event_log = NoFrame
    /\ provenance = <<>>
    /\ csv = NoFrame
    /\ pm4py_log = NoFrame
    /\ dfg = NoCounts
    /\ start_activities = NoCounts
    /\ end_activities = NoCounts
    /\ files = {}
    /\ fallback = NoFallback
    /\ analytics = NoAnalytics
    /\ pc = "start"
    /\ error = "none"

Next ==
    \/ ExcelNotFound
    \/ LoadSheets
    \/ QueryFails
    \/ Transform
    \/ Discover
    \/ SaveVisDfg
    \/ Fallback
    \/ AnalyticsFails
    \/ Analytics

Spec == Init /\ [][Next]_vars

----------------------------------------------------------------------------
(* Notions the properties below are stated with *)

\* The chronological value of the Timestamp of row i of a DataFrame.
TimeAt(frame, i) ==
    IF frame.ts_dtype = "object" THEN ParseIso(frame.rows[i].Timestamp)
    ELSE frame.rows[i].Timestamp[1]

\* The positions of the records of one case.
CaseRows(frame, case) ==
    {i \in 1..Len(frame.rows) : frame.rows[i].OrderID = case}

Cases(frame) == {frame.rows[i].OrderID : i \in 1..Len(frame.rows)}

\* The count a dictionary of counts holds for k (0: no entry).
CountOf(counts, k) == IF k \in DOMAIN counts THEN counts[k] ELSE 0

RECURSIVE SumOver(_, _)
SumOver(counts, keys) ==
    IF keys = {} THEN 0
    ELSE LET k == CHOOSE x \in keys : TRUE
         IN  counts[k] + SumOver(counts, keys \ {k})

SumCounts(counts) == SumOver(counts, DOMAIN counts)

\* The non-empty cells of the declared timestamp columns of the workbook.
SourceCells ==
    {x \in TableNames \X (UNION {TimestampColumns[t] : t \in TableNames})
             \X (1..MaxRows) :
        /\ x[2] \in TimestampColumns[x[1]]
        /\ x[2] \in sheets[x[1]].cols
        /\ x[3] <= Len(sheets[x[1]].rows)
        /\ sheets[x[1]].rows[x[3]][x[2]] # NULL}

\* The events the CTE produced for column col of row i of its table.
EventsOf(col, i) ==
    {n \in 1..Len(unpivoted_events) :
        /\ unpivoted_events[n].Activities = col
        /\ unpivoted_events[n].row = i}

SchemaComplete == \A t \in TableNames : QueryColumns[t] \subseteq sheets[t].cols

----------------------------------------------------------------------------
(* C2 *)

\* C2: once the query has run, every non-empty cell of a declared timestamp
\* column has exactly one unpivoted event, carrying the row's OrderID, the
\* cell's value as Timestamp and the column's name as Activities; an empty
\* cell has none, the CTE holds no other event, and the query raised no
\* error.
C2_UnpivotOneEventPerNonNullCell ==
    event_log.built =>
        /\ error # "DatabaseError"
        /\ Len(unpivoted_events) = Cardinality(SourceCells)
        /\ \A t \in TableNames : \A col \in TimestampColumns[t] :
             \A i \in 1..Len(sheets[t].rows) :
                LET r == sheets[t].rows[i]
                IN  IF r[col] = NULL THEN EventsOf(col, i) = {}
                    ELSE /\ Cardinality(EventsOf(col, i)) = 1
                         /\ \A n \in EventsOf(col, i) :
                              /\ unpivoted_events[n].OrderID = r.OrderID
                              /\ ParseIso(unpivoted_events[n].Timestamp)
                                    = r[col]
                              /\ unpivoted_events[n].Timestamp # NULLTEXT

\* A row with an empty and a non-empty timestamp cell has been unpivoted.
C2_Witness ==
    /\ event_log.built
    /\ \E i \in 1..Len(sheets.ordertable.rows) :
          /\ sheets.ordertable.rows[i].OrderDate = NULL
          /\ sheets.ordertable.rows[i].PackedDate # NULL
          /\ EventsOf("PackedDate", i) # {}

----------------------------------------------------------------------------
(* C1 *)

\* The first row of a table whose OrderID is case (NULL: none).
FirstRowOf(rows, case) ==
    IF \E i \in 1..Len(rows) : rows[i].OrderID = case
    THEN Minimum({i \in 1..Len(rows) : rows[i].OrderID = case})
    ELSE NULL

\* C1: the event log holds exactly one row per unpivoted event, whatever
\* the number of shipping or support rows of its case, and the row's
\* shipping and support attributes are those of the first row of the case
\* in table order.
C1_EnrichmentNeverFansOut ==
    event_log.built =>
        /\ Len(event_log.rows) = Len(unpivoted_events)
        /\ \A n \in 1..Len(unpivoted_events) :
              Cardinality({i \in 1..Len(provenance) :
                              provenance[i] = <<unpivoted_events[n].scan,
                                                unpivoted_events[n].row>>}) = 1
        /\ \A i \in 1..Len(event_log.rows) :
              /\ event_log.rows[i].DeliveryCompany =
                    FirstRowOf(sheets.shippingtable.rows,
                               event_log.rows[i].OrderID)
              /\ event_log.rows[i].SupportTeam =
                    FirstRowOf(sheets.supporttable.rows,
                               event_log.rows[i].OrderID)

----------------------------------------------------------------------------
(* C3 *)

\* The activities of the records of one case, in record order.
CaseActivities(frame, case) ==
    LET idx == CaseRows(frame, case)
    IN  [k \in 1..Cardinality(idx) |->
            frame.rows[CHOOSE i \in idx :
                          Cardinality({m \in idx : m <= i}) = k].Activities]

\* C3: in the event log the records of a case are contiguous and their
\* timestamps never decrease, and the traces pm4py builds hold, case by
\* case, the activities of the event log in that order.
C3_SortedWithinCase ==
    event_log.built =>
        /\ \A i, j \in 1..Len(event_log.rows) :
              (i < j /\ event_log.rows[i].OrderID = event_log.rows[j].OrderID)
              => /\ \A m \in i..j :
                       event_log.rows[m].OrderID = event_log.rows[i].OrderID
                 /\ TimeAt(event_log, i) <= TimeAt(event_log, j)
        /\ pm4py_log.built =>
              LET log == ConvertToEventLog(pm4py_log)
              IN  /\ Len(log) = Cardinality(Cases(event_log))
                  /\ \A case \in Cases(event_log) :
                        \E t \in 1..Len(log) :
                            log[t] = CaseActivities(event_log, case)
                  /\ \A i \in 1..Len(pm4py_log.rows) :
                        pm4py_log.rows[i]["time:timestamp"]
                            = <<TimeAt(event_log, i)>>

\* Pairs <<scan, row>> in the order the CTE produces them.
ProducedBefore(p, q) == p[1] < q[1] \/ (p[1] = q[1] /\ p[2] < q[2])

\* The log of two cases has been handed to pm4py, and within a case the
\* sort moved a record in front of one the CTE produced earlier.
C3_Witness ==
    /\ pm4py_log.built
    /\ Cardinality(Cases(event_log)) = 2
    /\ \E i, j \in 1..Len(event_log.rows) :
          /\ i < j
          /\ event_log.rows[i].OrderID = event_log.rows[j].OrderID
          /\ ProducedBefore(provenance[j], provenance[i])
          /\ TimeAt(event_log, i) < TimeAt(event_log, j)

----------------------------------------------------------------------------
(* C4 *)

\* The places of one case where activity b directly follows activity a.
FollowsIn(frame, case, a, b) ==
    LET trace == CaseActivities(frame, case)
    IN  {k \in 1..(Len(trace) - 1) : trace[k] = a /\ trace[k + 1] = b}

Activities(frame) == {frame.rows[i].Activities : i \in 1..Len(frame.rows)}

\* C4: every directly-follows count is the number of places, over all
\* cases, where the pair occurs consecutively (self-loops included), every
\* start (end) count is the number of cases beginning (ending) with the
\* activity, a one-event case gives no pair, and the dictionaries hold
\* nothing else: raw frequencies, no entry dropped or rescaled.
C4_DfgCountsPerCase ==
    dfg.built =>
        LET acts == Activities(event_log)
            cases == Cases(event_log)
        IN  /\ DOMAIN dfg.counts \subseteq acts \X acts
            /\ DOMAIN start_activities.counts \subseteq acts
            /\ DOMAIN end_activities.counts \subseteq acts
            /\ \A k \in DOMAIN dfg.counts : dfg.counts[k] >= 1
            /\ \A a \in acts : \A b \in acts :
                  CountOf(dfg.counts, <<a, b>>) =
                     Cardinality({x \in cases \X (1..Len(event_log.rows)) :
                                    x[2] \in FollowsIn(event_log, x[1], a, b)})
            /\ \A a \in acts :
                  /\ CountOf(start_activities.counts, a) =
                        Cardinality({c \in cases :
                                       CaseActivities(event_log, c)[1] = a})
                  /\ CountOf(end_activities.counts, a) =
                        Cardinality({c \in cases :
                            LET trace == CaseActivities(event_log, c)
                            IN  trace[Len(trace)] = a})

\* A graph with a self-loop and an edge between two activities was found.
C4_Witness ==
    /\ dfg.built
    /\ \E k \in DOMAIN dfg.counts : k[1] = k[2]
    /\ \E k \in DOMAIN dfg.counts : k[1] # k[2]

----------------------------------------------------------------------------
(* C5 *)

\* C5: the directly-follows counts add up to the number of events minus the
\* number of cases, on the event log and on the totals STEP 4 prints.
C5_EdgeCountConservation ==
    dfg.built =>
        /\ SumCounts(dfg.counts) =
              Len(event_log.rows) - Cardinality(Cases(event_log))
        /\ analytics.computed =>
              SumCounts(dfg.counts) =
                 analytics.total_events - analytics.total_cases

\* The analytics ran on a log of two cases and three events whose graph
\* has an edge.
C5_Witness ==
    /\ analytics.computed
    /\ analytics.total_cases = 2
    /\ analytics.total_events = 3
    /\ DOMAIN dfg.counts # {}

----------------------------------------------------------------------------
(* C6 *)

\* C6: the start counts and the end counts each add up to the number of
\* cases of the event log.
C6_StartEndConservation ==
    dfg.built =>
        /\ SumCounts(start_activities.counts) = Cardinality(Cases(event_log))
        /\ SumCounts(end_activities.counts) = Cardinality(Cases(event_log))

\* A log with a one-event case and a longer case was mined.
C6_Witness ==
    /\ dfg.built
    /\ \E c \in Cases(event_log) : Cardinality(CaseRows(event_log, c)) = 1
    /\ \E c \in Cases(event_log) : Cardinality(CaseRows(event_log, c)) > 1

----------------------------------------------------------------------------
(* C7 *)

----------------------------------------------------------------------------
(* C8 *)

\* C8: once built, the event log is never changed by a later step: it keeps
\* the type of its Timestamp column and every row.
C8_EventLogImmutable ==
    [][event_log.built =>
          /\ event_log'.built
          /\ event_log'.ts_dtype = event_log.ts_dtype
          /\ event_log'.rows = event_log.rows]_vars

----------------------------------------------------------------------------
(* C9 *)

\* C9: when a sheet lacks a column the query names, the run gets no further
\* than the failing query: it ends with the database error, and no
\* unpivoted event, event log, CSV file, pm4py log, graph or image exists.
C9_FailFastOnMissingColumn ==
    (excel_exists /\ ~SchemaComplete) =>
        /\ pc \in {"start", "loaded", "crashed"}
        /\ pc = "crashed" => error = "DatabaseError"
        /\ unpivoted_events = <<>>
        /\ ~event_log.built
        /\ ~csv.built
        /\ ~pm4py_log.built
        /\ ~dfg.built
        /\ files = {}

\* A run whose sheet has a row with a timestamp but lacks a declared
\* timestamp column has ended in the database error.
C9_Witness ==
    /\ pc = "crashed"
    /\ error = "DatabaseError"
    /\ \E t \in TableNames :
          /\ ~(TimestampColumns[t] \subseteq sheets[t].cols)
          /\ \E i \in 1..Len(sheets[t].rows) :
                \E col \in TimestampColumns[t] \cap sheets[t].cols :
                    sheets[t].rows[i][col] # NULL

----------------------------------------------------------------------------
(* C10 *)

\* C10: no summary ever holds a NaN, a run over a log of no case never
\* completes its analytics, and when the analytics fail the saved event log
\* is still the one that was built.
C10_NoNaNOnEmptyLog ==
    /\ fallback.drawn => ~fallback.span_nan
    /\ analytics.computed => analytics.total_cases > 0
    /\ (pc = "done" /\ event_log.built) => Cases(event_log) # {}
    /\ (pc = "crashed" /\ error = "ZeroDivisionError") =>
          (csv.built /\ csv.rows = event_log.rows)

====
